---- MODULE Spec2Model ----
(***************************************************************************)
(* A model of src/data_generator.py: the NMRDataGenerator class and the    *)
(* process-global numpy random stream it seeds and draws from.             *)
(*                                                                         *)
(* Floating-point values are fixed-point integers.  Units:                 *)
(*   Porosity, Clay_Volume, bound-fluid fraction   1/100                   *)
(*   BFV, FFI                                      1/10000                 *)
(*   T2_GM_ms                                      ms                      *)
(*   *_Permeability_mD                             1/100 mD                *)
(*   Depth_m                                       1/1000 m                *)
(*   log-normal factors, exponents                 1/1000                  *)
(* The stream is a sequence of variates: element k after seed s is         *)
(* Raw(s, k); a uniform or log-normal draw of size n takes n elements.     *)
(* numpy's generator (its word stream, the cached second normal) is not  *)
(* in the repository; only the order and the count of variates are.      *)
(***************************************************************************)
EXTENDS Integers, Sequences, FiniteSets, TLC

\* ---------------------------------------------------------------- bounds
MaxSamples == 2
MaxGens == 2
MaxWells == 2
MaxBins == 2
MaxDraws == 16
RawLevels == 4

\* random_seed arguments tried by the constructor (42 is the default)
SeedArgs == {42, 43}

VARIABLES
    gens,      \* the instances constructed so far: gens[i].n_samples
    seedArg,   \* seedArg[i]: the random_seed instance i was constructed with
    rng,       \* the global np.random state: last seed, variates drawn since
    calls,     \* calls[i]: generate_nmr_permeability_data calls on i (0, 1, 2 = more)
    data,      \* data[i]: what the latest such call on i returned
    wellsRun,  \* whether generate_well_data has run
    out,       \* the latest call: [op, self, arg, val]
    raws,      \* SampleSpec: the eight variates of one sample
    sample     \* SampleSpec: the one-row DataFrame computed from them

vars == <<gens, seedArg, rng, calls, data, wellsRun, out, raws, sample>>

\* ------------------------------------------------------------ arithmetic
Min(a, b) == IF a <= b THEN a ELSE b
Max(a, b) == IF a >= b THEN a ELSE b
Abs(a) == IF a >= 0 THEN a ELSE -a

\* a * m / 1000 without overflowing 32 bits (m a factor in 1/1000)
MulMilli(a, m) == (a \div 1000) * m + ((a % 1000) * m) \div 1000

RECURSIVE ExpTerms(_, _, _)
ExpTerms(x, k, t) ==
    IF t = 0 THEN 0 ELSE t + ExpTerms(x, k + 1, (t * x) \div (1000 * (k + 1)))

RECURSIVE ExpPos(_)
ExpPos(x) == IF x > 693 THEN 2 * ExpPos(x - 693) ELSE ExpTerms(x, 0, 1000)

\* np.exp on 1/1000 fixed point; results below 0.001 underflow to 0
Exp(x) ==
    IF x >= 0 THEN ExpPos(x)
    ELSE IF x < -7000 THEN 0
    ELSE 1000000 \div ExpPos(-x)

\* floor(100 * x^0.4) for x = p/100: the integer fifth root of 10^6 p^2
RECURSIVE Root5In(_, _, _)
Root5In(X, lo, hi) ==
    IF lo = hi THEN lo
    ELSE LET mid == (lo + hi + 1) \div 2
         IN  IF mid * mid * mid * mid * mid <= X THEN Root5In(X, mid, hi)
             ELSE Root5In(X, lo, mid - 1)

Root5(X) == Root5In(X, 0, 72)

Pow4(p) == p * p * p * p

\* np.clip with the upper limit left out
ClipNoUpper(x, lo, hi) == Max(x, lo)

\* np.clip
Clip(x, lo, hi) == Min(Max(x, lo), hi)

\* ---------------------------------------------------------- the stream
RECURSIVE StreamState(_, _)
StreamState(seed, k) ==
    IF k = 0 THEN (seed * 7919 + 10473) % 65536
    ELSE (25173 * StreamState(seed, k - 1) + 13849) % 65536

\* the k-th variate after np.random.seed(seed), as a level in 0..RawLevels-1
Raw(seed, k) == (StreamState(seed, k) \div 64) % RawLevels

\* np.random.seed
Seed(s) == [seed |-> s, pos |-> 0]

\* the draws taken sample by sample instead of one block per quantity
BlockPerSample(r, b, n) == [i \in 1..n |-> Raw(r.seed, r.pos + (i - 1) * 8 + b)]

\* n variates from the stream at state r: block b of a generate call
Block(r, b, n) == [i \in 1..n |-> Raw(r.seed, r.pos + b * n + (i - 1))]

\* np.random.uniform(lo, hi): lo + (hi - lo) * u
Uniform(lo, hi, u) == lo + ((hi - lo) * u) \div RawLevels

\* the standard normal behind np.random.lognormal, in sigmas
Gauss(u) == 2 * u - (RawLevels - 1)

\* np.random.lognormal(mean, sigma), in 1/1000
LogNormal(mean, sigma, u) == Exp(mean + sigma * Gauss(u))

\* ------------------------------------ generate_nmr_permeability_data
\* np.linspace(start, stop, num, endpoint=False)
LinspaceNoEndpoint(start, stop, num) ==
    [i \in 1..num |-> start + ((stop - start) * (i - 1)) \div num]

\* np.linspace(start, stop, num), endpoint included
Linspace(start, stop, num) ==
    [i \in 1..num |->
        IF num = 1 THEN start
        ELSE start + ((stop - start) * (i - 1)) \div (num - 1)]

\* porosity = np.random.uniform(0.05, 0.35)
Porosity(u) == Uniform(5, 35, u)

\* t2_gm = np.clip(np.random.lognormal(np.log(100), 0.8), 10, 1000)
T2GM(u) == Clip(LogNormal(4605, 800, u) \div 1000, 10, 1000)

\* bfv drawn as np.random.uniform(0.2, 0.6) alone, not scaled by porosity
BoundFluidUnscaled(p, u) == 100 * Uniform(20, 60, u)

\* bfv = porosity * np.random.uniform(0.2, 0.6)
BoundFluid(p, u) == p * Uniform(20, 60, u)

\* ffi = porosity - bfv
FreeFluid(p, bfv) == p * 100 - bfv

\* clay_volume = np.random.uniform(0, 0.3)
ClayVolume(u) == Uniform(0, 30, u)

\* (porosity ** 4) * (ffi / bfv) ** 2 * 10000
BasePerm(p, ffi, bfv) ==
    LET ratio == (ffi * 1000) \div bfv
    IN  ((Pow4(p) \div 100) * ((ratio * ratio) \div 1000)) \div 1000

\* base * np.random.lognormal(0, sigma), clipped to [0.01, 10000]
Noisy(base, sigma, u) == Clip(MulMilli(base, LogNormal(0, sigma, u)), 1, 1000000)

\* 0.136 * (porosity ** 4.4) / (bfv ** 2) * 10000
TimurBase(p, bfv) ==
    136 * ((Pow4(p) * Root5(1000000 * p * p) * 10) \div (bfv * bfv))

\* 4 * (porosity ** 4) * (t2_gm ** 2)
SdrBase(p, t2) == (4 * (Pow4(p) \div 100) * ((t2 * t2) \div 100)) \div 100

\* Row i of the DataFrame, from the i-th variate of each of the eight draws
SampleRow(depth, u) ==
    LET porosity == Porosity(u[1])
        t2_gm    == T2GM(u[2])
        bfv      == BoundFluid(porosity, u[3])
        ffi      == FreeFluid(porosity, bfv)
    IN  [ Depth_m     |-> depth,
          Porosity    |-> porosity,
          T2_GM_ms    |-> t2_gm,
          BFV         |-> bfv,
          FFI         |-> ffi,
          Clay_Volume |-> ClayVolume(u[4]),
          Core_Permeability_mD         |-> Noisy(BasePerm(porosity, ffi, bfv), 300, u[5]),
          Coates_Permeability_mD       |-> Noisy(BasePerm(porosity, ffi, bfv), 150, u[6]),
          Timur_Coates_Permeability_mD |-> Noisy(TimurBase(porosity, bfv), 200, u[7]),
          SDR_Permeability_mD          |-> Noisy(SdrBase(porosity, t2_gm), 180, u[8]) ]

\* The draws of one call, in the order the code makes them
DrawOrder == <<"porosity", "t2_gm", "bfv", "clay_volume", "core", "coates", "timur_coates", "sdr">>

\* The DataFrame a call returns with the stream at r, for n samples
GenerateData(r, n) ==
    LET depth == Linspace(2000000, 2500000, n)
    IN  [i \in 1..n |->
            SampleRow(depth[i], [b \in 1..Len(DrawOrder) |-> Block(r, b - 1, n)[i]])]

\* The stream after that call
Advance(r, n) == [r EXCEPT !.pos = r.pos + Len(DrawOrder) * n]


\* ------------------------------------------------ generate_well_data
\* f'Well_{i}'
WellKey(i) == <<"Well_", i>>

\* The seed of well i: np.random.seed(42 + i)
WellSeed(i) == 42 + i

\* for i in range(1, n_wells + 1): reseed, generate, store; from well i on
RECURSIVE WellLoop(_, _, _, _, _)
WellLoop(i, n_wells, n, r, wells) ==
    IF i > n_wells THEN [wells |-> wells, rng |-> r]
    ELSE LET seeded == Seed(WellSeed(i))
             well_data == GenerateData(seeded, n)
         IN  WellLoop(i + 1, n_wells, n, Advance(seeded, n),
                      [k \in DOMAIN wells \cup {WellKey(i)} |->
                          IF k = WellKey(i) THEN well_data ELSE wells[k]])

\* ------------------------------------------- generate_t2_distribution
Return(v) == [kind |-> "return", val |-> v]
Raise(e) == [kind |-> "raise", exc |-> e]

\* np.logspace(-1, 4, num): the exponents np.linspace(-1, 4, num), which
\* raises ValueError for a negative num; the time is 10 ** exponent
Logspace(num) ==
    IF num < 0 THEN Raise("ValueError") ELSE Return(Linspace(-1000, 4000, num))

\* np.log(t2_times) of the time with exponent e: e * ln(10)
LogTime(e) == (e * 2303) \div 1000

\* ln of 0.3 * clay_peak + 0.7 * free_fluid_peak at log-time x, taken as the
\* larger of the two terms: ln(0.3) - (x - ln 3)^2 / (2 * 0.5^2) and
\* ln(0.7) - (x - ln 200)^2 / (2 * 0.8^2)
LogAmplitude(x) ==
    Max(-1204 - 2 * (((x - 1099) * (x - 1099)) \div 1000),
        -357 - ((((x - 5298) * (x - 5298)) \div 1000) * 100) \div 128)

\* np.max, which raises ValueError on an empty array
ArrayMax(a) ==
    IF Len(a) = 0 THEN Raise("ValueError")
    ELSE Return(CHOOSE m \in {a[i] : i \in 1..Len(a)} : \A i \in 1..Len(a) : a[i] <= m)

\* generate_t2_distribution without the division by np.max(amplitudes)
T2DistributionUnnormalised(n_bins) ==
    LET t2_times == Logspace(n_bins)
    IN  IF t2_times.kind = "raise" THEN t2_times
        ELSE Return([t2_times |-> t2_times.val,
                     amplitudes |-> [i \in 1..n_bins |-> Exp(LogAmplitude(LogTime(t2_times.val[i])))]])

\* What generate_t2_distribution(n_bins) returns or raises
T2Distribution(n_bins) ==
    LET t2_times == Logspace(n_bins)
    IN  IF t2_times.kind = "raise" THEN t2_times
        ELSE LET logamp == [i \in 1..n_bins |-> LogAmplitude(LogTime(t2_times.val[i]))]
                 top == ArrayMax(logamp)
             IN  IF top.kind = "raise" THEN top
                 ELSE Return([t2_times |-> t2_times.val,
                              amplitudes |-> [i \in 1..n_bins |-> Exp(logamp[i] - top.val)]])

\* ----------------------------------------------- calculate_statistics
Models == {"Coates", "Timur_Coates", "SDR"}

\* data[f'{model}_Permeability_mD']
Pred(row, model) ==
    CASE model = "Coates" -> row.Coates_Permeability_mD
      [] model = "Timur_Coates" -> row.Timur_Coates_Permeability_mD
      [] model = "SDR" -> row.SDR_Permeability_mD

Finite(v) == [cls |-> "finite", v |-> v]
NaN == [cls |-> "nan", v |-> 0]
Inf == [cls |-> "inf", v |-> 0]

Rows(d) == 1..Len(d)

\* np.corrcoef(np.log10(core), np.log10(pred))[0, 1]: nan with fewer than two
\* rows, with a zero (log10 is -inf) or with a constant column
Correlation(d, model) ==
    IF \/ Len(d) < 2
       \/ \E i \in Rows(d) : d[i].Core_Permeability_mD = 0 \/ Pred(d[i], model) = 0
       \/ \A i, j \in Rows(d) : d[i].Core_Permeability_mD = d[j].Core_Permeability_mD
       \/ \A i, j \in Rows(d) : Pred(d[i], model) = Pred(d[j], model)
    THEN NaN
    ELSE Finite(1)

\* np.sqrt(np.mean((log10(core) - log10(pred)) ** 2)): the mean of a Series
\* skips nan (-inf - -inf) and is nan when nothing is left
RmseLog(d, model) ==
    LET kept == {i \in Rows(d) : ~(d[i].Core_Permeability_mD = 0 /\ Pred(d[i], model) = 0)}
    IN  IF kept = {} THEN NaN
        ELSE IF \E i \in kept : d[i].Core_Permeability_mD = 0 \/ Pred(d[i], model) = 0 THEN Inf
        ELSE Finite(1)

RECURSIVE SumOver(_, _, _)
SumOver(d, model, S) ==
    IF S = {} THEN 0
    ELSE LET i == CHOOSE k \in S : TRUE
         IN  (Abs(d[i].Core_Permeability_mD - Pred(d[i], model)) * 1000)
                 \div d[i].Core_Permeability_mD
             + SumOver(d, model, S \ {i})

\* np.mean(np.abs((core - pred) / core)) * 100, in percent
Mape(d, model) ==
    LET kept == {i \in Rows(d) : ~(d[i].Core_Permeability_mD = 0 /\ Pred(d[i], model) = 0)}
    IN  IF kept = {} THEN NaN
        ELSE IF \E i \in kept : d[i].Core_Permeability_mD = 0 THEN Inf
        ELSE Finite((SumOver(d, model, kept) \div Cardinality(kept)) \div 10)

\* What calculate_statistics(data) returns
Statistics(d) ==
    Return([model \in Models |->
               [correlation |-> Correlation(d, model),
                rmse_log |-> RmseLog(d, model),
                mape |-> Mape(d, model)]])

\* --------------------------------------------------------- the program
Instances == 1..Len(gens)

Called(i) == calls[i] > 0

NoCall == [op |-> "none", self |-> 0, arg |-> 0, val |-> Return("None")]

Init ==
    /\ gens = <<>>
    /\ seedArg = <<>>
    /\ rng = Seed(0)    \* arbitrary before the first constructor; never drawn from
    /\ calls = <<>>
    /\ data = <<>>
    /\ wellsRun = FALSE
    /\ out = NoCall
    /\ raws = [b \in 1..Len(DrawOrder) |-> 0]
    /\ sample = <<>>

\* NMRDataGenerator(n_samples, random_seed): __init__
NMRDataGenerator(n_samples, random_seed) ==
    /\ Len(gens) < MaxGens
    /\ gens' = Append(gens, [n_samples |-> n_samples])
    /\ seedArg' = Append(seedArg, random_seed)
    /\ rng' = Seed(random_seed)
    /\ calls' = Append(calls, 0)
    /\ data' = Append(data, <<>>)
    /\ out' = NoCall
    /\ UNCHANGED <<wellsRun, raws, sample>>

\* generate_nmr_permeability_data drawing from a stream of the instance's own,
\* seeded with its random_seed, instead of the global np.random
generate_nmr_permeability_data_own_stream(self) ==
    LET n == gens[self].n_samples
        own == [seed |-> seedArg[self], pos |-> Len(DrawOrder) * n * calls[self]]
        df == GenerateData(own, n)
    IN  /\ rng.pos + Len(DrawOrder) * n <= MaxDraws
        /\ rng' = rng
        /\ data' = [data EXCEPT ![self] = df]
        /\ calls' = [calls EXCEPT ![self] = Min(@ + 1, 2)]
        /\ out' = [op |-> "generate", self |-> self, arg |-> <<>>, val |-> Return(df)]
        /\ UNCHANGED <<gens, seedArg, wellsRun, raws, sample>>

generate_nmr_permeability_data(self) ==
    LET n == gens[self].n_samples
        df == GenerateData(rng, n)
    IN  /\ rng.pos + Len(DrawOrder) * n <= MaxDraws
        /\ rng' = Advance(rng, n)
        /\ data' = [data EXCEPT ![self] = df]
        /\ calls' = [calls EXCEPT ![self] = Min(@ + 1, 2)]
        /\ out' = [op |-> "generate", self |-> self, arg |-> <<>>, val |-> Return(df)]
        /\ UNCHANGED <<gens, seedArg, wellsRun, raws, sample>>

generate_well_data(self, n_wells) ==
    LET done == WellLoop(1, n_wells, gens[self].n_samples, rng, <<>>)
    IN  /\ rng' = done.rng
        /\ wellsRun' = TRUE
        /\ out' = [op |-> "wells", self |-> self, arg |-> n_wells, val |-> Return(done.wells)]
        /\ UNCHANGED <<gens, seedArg, calls, data, raws, sample>>

\* generate_t2_distribution taking n_bins variates from the global stream
generate_t2_distribution_drawing(self, n_bins) ==
    /\ out' = [op |-> "t2", self |-> self, arg |-> n_bins, val |-> T2Distribution(n_bins)]
    /\ rng' = [rng EXCEPT !.pos = Min(rng.pos + Max(n_bins, 0), MaxDraws)]
    /\ UNCHANGED <<gens, seedArg, calls, data, wellsRun, raws, sample>>

generate_t2_distribution(self, n_bins) ==
    /\ out' = [op |-> "t2", self |-> self, arg |-> n_bins, val |-> T2Distribution(n_bins)]
    /\ UNCHANGED <<gens, seedArg, rng, calls, data, wellsRun, raws, sample>>

\* A one-row DataFrame whose ground truth is exactly zero
ZeroCoreData ==
    <<[GenerateData(Seed(42), 1)[1] EXCEPT !.Core_Permeability_mD = 0]>>

\* The DataFrames a caller passes: the one it generated last, or one of its own
StatsInputs(self) ==
    (IF Called(self) THEN {data[self]} ELSE {}) \cup {ZeroCoreData}

calculate_statistics(self, d) ==
    /\ out' = [op |-> "stats", self |-> self, arg |-> d, val |-> Statistics(d)]
    /\ UNCHANGED <<gens, seedArg, rng, calls, data, wellsRun, raws, sample>>

Next ==
    \/ \E n \in 0..MaxSamples, s \in SeedArgs : NMRDataGenerator(n, s)
    \/ \E self \in Instances : generate_nmr_permeability_data(self)
    \/ \E self \in Instances, w \in 0..MaxWells : generate_well_data(self, w)
    \/ \E self \in Instances, b \in -1..MaxBins : generate_t2_distribution(self, b)
    \/ \E self \in Instances : \E d \in StatsInputs(self) : calculate_statistics(self, d)

Spec == Init /\ [][Next]_vars

\* ------------------------------------------- one sample, every variate
\* The eight variates of a sample take every value; the row is then computed
\* as a one-sample call computes it.
SampleInit ==
    /\ gens = <<>>
    /\ seedArg = <<>>
    /\ rng = Seed(0)
    /\ calls = <<>>
    /\ data = <<>>
    /\ wellsRun = FALSE
    /\ out = NoCall
    /\ raws \in [1..Len(DrawOrder) -> 0..(RawLevels - 1)]
    /\ sample = <<>>

ComputeSample ==
    /\ sample = <<>>
    /\ sample' = <<SampleRow(Linspace(2000000, 2500000, 1)[1], raws)>>
    /\ UNCHANGED <<gens, seedArg, rng, calls, data, wellsRun, out, raws>>

SampleSpec == SampleInit /\ [][ComputeSample]_vars

\* ---------------------------------------------------------- properties
\* Every DataFrame in the state that generate_nmr_permeability_data or
\* generate_well_data produced
Produced ==
    {data[i] : i \in {k \in Instances : Called(k)}}
        \cup (IF out.op = "wells" THEN {out.val.val[k] : k \in DOMAIN out.val.val} ELSE {})
        \cup {sample}

\* C1: two generators constructed with the same sample_count and random_seed,
\* each called once, return identical datasets in every order of the two
\* constructions and the two calls.
C1_SameSeedSameData ==
    \A i, j \in Instances :
        (/\ ~wellsRun
         /\ gens[i].n_samples = gens[j].n_samples
         /\ seedArg[i] = seedArg[j]
         /\ calls[i] = 1 /\ calls[j] = 1)
        => data[i] = data[j]

\* C2: the dataset stored under Well_i is the one a fresh generator seeded with
\* base_seed + i and the same sample_count returns from its first call.
C2_WellSeedIsBasePlusIndex ==
    out.op = "wells" =>
        \A i \in 1..out.arg :
            out.val.val[WellKey(i)] =
                GenerateData(Seed(seedArg[out.self] + i), gens[out.self].n_samples)

\* C3: generate_well_data(well_count) returns exactly the keys Well_1 ..
\* Well_<well_count>, each a dataset of sample_count samples, and for a positive
\* sample_count the wells differ from each other and from the single-well
\* dataset of the base seed.
C3_WellsDistinct ==
    out.op = "wells" =>
        LET wells == out.val.val
            n == gens[out.self].n_samples
        IN  /\ DOMAIN wells = {WellKey(i) : i \in 1..out.arg}
            /\ \A k \in DOMAIN wells : Len(wells[k]) = n
            /\ n >= 1 =>
                /\ \A k, l \in DOMAIN wells : k # l => wells[k] # wells[l]
                /\ \A k \in DOMAIN wells :
                       wells[k] # GenerateData(Seed(seedArg[out.self]), n)

\* C4: in every produced dataset, for every sample, bound_fluid_volume <=
\* porosity and free_fluid_index = porosity - bound_fluid_volume >= 0.
C4_BoundFluidWithinPorosity ==
    \A d \in Produced : \A i \in Rows(d) :
        /\ d[i].BFV <= d[i].Porosity * 100
        /\ d[i].FFI = d[i].Porosity * 100 - d[i].BFV
        /\ d[i].FFI >= 0

C4_Witness ==
    /\ out.op = "wells" /\ out.arg >= 1 /\ gens[out.self].n_samples >= 1
    /\ \E i \in Instances : Called(i) /\ Len(data[i]) >= 1

Perms(row) ==
    {row.Core_Permeability_mD, row.Coates_Permeability_mD,
     row.Timur_Coates_Permeability_mD, row.SDR_Permeability_mD}

\* C5: in every produced dataset, for every sample, each of the four
\* permeability fields lies in [0.01, 10000] mD, whatever the draws are.
C5_PermeabilityInRange ==
    \A d \in Produced : \A i \in Rows(d) : \A k \in Perms(d[i]) :
        1 <= k /\ k <= 1000000

\* a sample whose SDR estimate exceeds 10000 mD before the clip
C5_Witness ==
    /\ Len(sample) = 1
    /\ MulMilli(SdrBase(sample[1].Porosity, sample[1].T2_GM_ms),
                LogNormal(0, 180, raws[8])) > 1000000
    /\ sample[1].SDR_Permeability_mD = 1000000

\* C6: calculate_statistics raises, returning no statistics, when the dataset
\* is empty or a core_permeability_md value is exactly zero.
C6_StatisticsRaises ==
    (/\ out.op = "stats"
     /\ \/ Len(out.arg) = 0
        \/ \E i \in Rows(out.arg) : out.arg[i].Core_Permeability_mD = 0)
    => out.val.kind = "raise"

\* C7: generate_t2_distribution(bin_count) raises (numpy's ValueError) for
\* every bin_count < 1 and returns no times or amplitudes.
C7_T2RaisesBelowOne ==
    (out.op = "t2" /\ out.arg < 1) =>
        (out.val.kind = "raise" /\ out.val.exc = "ValueError")

C7_Witness == out.op = "t2" /\ out.arg = 0 /\ out.val.kind = "raise"

\* C8: a generate_t2_distribution or calculate_statistics call leaves the random
\* stream, the generators and the datasets as they were, so the dataset of the
\* next generate call is the same with or without it.
C8_PureCallsFrame ==
    [][out'.op \in {"t2", "stats"} =>
          /\ rng' = rng
          /\ gens' = gens /\ seedArg' = seedArg
          /\ data' = data /\ calls' = calls]_vars

C8_Witness ==
    /\ out.op = "stats" /\ Len(out.arg) >= 1 /\ out.val.kind = "return"
    /\ rng.pos > 0 /\ rng.pos < MaxDraws

\* C9: for sample_count >= 2 the depth column starts at 2000, ends at 2500, is
\* strictly increasing, and is the same for every seed and stream state.
C9_DepthColumn ==
    /\ \A d \in Produced : Len(d) >= 2 =>
          /\ d[1].Depth_m = 2000000
          /\ d[Len(d)].Depth_m = 2500000
          /\ \A i, j \in Rows(d) : i < j => d[i].Depth_m < d[j].Depth_m
    /\ \A d, e \in Produced : Len(d) = Len(e) =>
          \A i \in Rows(d) : d[i].Depth_m = e[i].Depth_m

C9_Witness ==
    \E i, j \in Instances :
        /\ Called(i) /\ Called(j)
        /\ Len(data[i]) >= 2 /\ Len(data[j]) = Len(data[i])
        /\ data[i] # data[j]

\* C10: one generate call takes eight blocks of sample_count variates in the
\* order porosity, T2, bound-fluid fraction, clay, core noise, Coates noise,
\* Timur-Coates noise, SDR noise; Coates shares the ground truth's base
\* expression with its own later noise; no field uses a later block than its own.
C10_DrawOrder ==
    [][out'.op = "generate" =>
          LET n == gens[out'.self].n_samples
              df == out'.val.val
              U(b, i) == Raw(rng.seed, rng.pos + (b - 1) * n + (i - 1))
          IN  /\ rng' = [seed |-> rng.seed, pos |-> rng.pos + 8 * n]
              /\ Len(df) = n
              /\ \A i \in 1..n :
                    LET base == BasePerm(df[i].Porosity, df[i].FFI, df[i].BFV)
                    IN  /\ df[i].Porosity = Porosity(U(1, i))
                        /\ df[i].T2_GM_ms = T2GM(U(2, i))
                        /\ df[i].BFV = BoundFluid(df[i].Porosity, U(3, i))
                        /\ df[i].FFI = FreeFluid(df[i].Porosity, df[i].BFV)
                        /\ df[i].Clay_Volume = ClayVolume(U(4, i))
                        /\ df[i].Core_Permeability_mD = Noisy(base, 300, U(5, i))
                        /\ df[i].Coates_Permeability_mD = Noisy(base, 150, U(6, i))
                        /\ df[i].Timur_Coates_Permeability_mD =
                               Noisy(TimurBase(df[i].Porosity, df[i].BFV), 200, U(7, i))
                        /\ df[i].SDR_Permeability_mD =
                               Noisy(SdrBase(df[i].Porosity, df[i].T2_GM_ms), 180, U(8, i))]_vars

C10_Witness ==
    /\ out.op = "generate" /\ Len(out.val.val) >= 2
    /\ rng.pos = 8 * Len(out.val.val)

\* C11: np.random is one stream shared by every instance. A constructor run
\* reseeds it with its random_seed, generate_well_data leaves it at seed
\* 42 + i of the last well with that well's draws consumed (and untouched when
\* no well is generated), and a generate_nmr_permeability_data call returns the
\* dataset fixed by the stream's last seed, the draws consumed since, and the
\* called instance's n_samples, whatever random_seed that instance was given.
C11_SharedGlobalStream ==
    [][/\ Len(gens') = Len(gens) + 1 =>
              rng' = [seed |-> seedArg'[Len(gens')], pos |-> 0]
       /\ out'.op = "wells" =>
              LET n == gens[out'.self].n_samples
              IN  rng' = IF out'.arg >= 1
                         THEN [seed |-> 42 + out'.arg, pos |-> Len(DrawOrder) * n]
                         ELSE rng
       /\ out'.op = "generate" =>
              LET n == gens[out'.self].n_samples
              IN  /\ rng' = [seed |-> rng.seed, pos |-> rng.pos + Len(DrawOrder) * n]
                  /\ out'.val.val = GenerateData([seed |-> rng.seed, pos |-> rng.pos], n)]_vars

\* A call after constructions and a generate_well_data on an instance whose own
\* random_seed is not the last reseeding: its dataset is not the one its own
\* seed gives.
C11_Witness ==
    /\ out.op = "generate" /\ wellsRun
    /\ Len(out.val.val) >= 1
    /\ rng.seed \in SeedArgs /\ rng.seed # seedArg[out.self]
    /\ out.val.val # GenerateData(Seed(seedArg[out.self]), gens[out.self].n_samples)

====
